---- MODULE Spec2Model ----
(***************************************************************************)
(* Model of the Last.fm slot-machine API routes:                           *)
(*   GET /api/lastfm/get-nth-song   (track-by-index)                       *)
(*   GET /api/lastfm/max-playcount  (playcount)                            *)
(* Each handler is cut at its awaits: the synchronous prefix up to the     *)
(* outbound fetch, the resolution of the fetch, the parsing of the body.   *)
(* A JavaScript number is a record [nan, t]: t counts tenths, so that the  *)
(* integers and the one-decimal fractions a query string can carry are     *)
(* both values of the model.                                               *)
(***************************************************************************)
EXTENDS Integers, Sequences, FiniteSets, TLC

\* ------------------------------------------------------------------ bounds
MaxPages == 2          \* page boundaries the sampled indices surround
MaxArrivals == 1       \* scrobbles that may arrive while the model runs
MaxPlaycountBound == 500 \* largest playcount of the exhaustive pagination run
MaxTime == 15          \* seconds the clock of the token cache runs
MaxExchanges == 2      \* credential exchanges that may be issued
TickSeconds == 5       \* granularity of the clock

\* --------------------------------------------------------- program constants
limit == 200

\* ------------------------------------------------------- JavaScript numbers
NaN == [nan |-> TRUE, t |-> 0]
Num(i) == [nan |-> FALSE, t |-> i * 10]
isNaN(x) == x.nan
IsInteger(x) == ~x.nan /\ x.t % 10 = 0
IntOf(x) == x.t \div 10
JsLess(a, b) == ~a.nan /\ ~b.nan /\ a.t < b.t
JsGreater(a, b) == ~a.nan /\ ~b.nan /\ a.t > b.t
JsSub(a, b) == IF a.nan \/ b.nan THEN NaN ELSE [nan |-> FALSE, t |-> a.t - b.t]
JsAdd(a, b) == IF a.nan \/ b.nan THEN NaN ELSE [nan |-> FALSE, t |-> a.t + b.t]
\* Math.floor(a / d) for a divisor d that is a positive integer constant
JsFloorDiv(a, d) == IF a.nan THEN NaN ELSE Num(a.t \div (d * 10))
\* a % d: the remainder takes the sign of the dividend
JsRem(a, d) ==
    IF a.nan THEN NaN
    ELSE IF a.t >= 0 THEN [nan |-> FALSE, t |-> a.t % (d * 10)]
         ELSE [nan |-> FALSE, t |-> 0 - ((0 - a.t) % (d * 10))]

\* ------------------------------------------------ strings as character lists
DigitChars == <<"0", "1", "2", "3", "4", "5", "6", "7", "8", "9">>
IsDigit(c) == \E i \in 1..10 : DigitChars[i] = c
DigitVal(c) == (CHOOSE i \in 1..10 : DigitChars[i] = c) - 1
AllDigits(s) == \A i \in 1..Len(s) : IsDigit(s[i])

RECURSIVE DigitsValue(_)
DigitsValue(s) ==
    IF s = <<>> THEN 0
    ELSE DigitsValue(SubSeq(s, 1, Len(s) - 1)) * 10 + DigitVal(s[Len(s)])

RECURSIVE TrimLeft(_)
TrimLeft(s) == IF s # <<>> /\ Head(s) = " " THEN TrimLeft(Tail(s)) ELSE s
RECURSIVE TrimRight(_)
TrimRight(s) ==
    IF s # <<>> /\ s[Len(s)] = " " THEN TrimRight(SubSeq(s, 1, Len(s) - 1)) ELSE s
Trim(s) == TrimRight(TrimLeft(s))

DotAt(s) == IF \E i \in 1..Len(s) : s[i] = "."
            THEN CHOOSE i \in 1..Len(s) : s[i] = "." /\ \A j \in 1..(i - 1) : s[j] # "."
            ELSE 0

\* Number(text): whitespace is trimmed, the empty string is 0, a signed
\* decimal literal is its value, anything else is NaN.  Fractions are kept
\* to one digit, which is all the inputs of the model carry.
Number(s) ==
    LET t == Trim(s)
        neg == t # <<>> /\ Head(t) = "-"
        body == IF neg \/ (t # <<>> /\ Head(t) = "+") THEN Tail(t) ELSE t
        d == DotAt(body)
        whole == IF d = 0 THEN body ELSE SubSeq(body, 1, d - 1)
        frac == IF d = 0 THEN <<>> ELSE SubSeq(body, d + 1, Len(body))
        wellFormed == /\ AllDigits(whole) /\ AllDigits(frac)
                      /\ Len(whole) + Len(frac) > 0
                      /\ Len(frac) <= 1
        mag == DigitsValue(whole) * 10 + DigitsValue(frac)
    IN IF t = <<>> THEN Num(0)
       ELSE IF wellFormed THEN [nan |-> FALSE, t |-> IF neg THEN 0 - mag ELSE mag]
       ELSE NaN

\* String(i) for a non-negative integer i
RECURSIVE String(_)
String(i) ==
    IF i < 10 THEN <<DigitChars[i + 1]>>
    ELSE Append(String(i \div 10), DigitChars[(i % 10) + 1])


\* ------------------------------------------------------------------- state
VARIABLES
    pc,          \* position of the handler: idle, awaitFetch, awaitJson, done
    endpoint,    \* which route is handling: "none", "track", "playcount"
    req,         \* query parameters of the request being handled
    apiKey,      \* process.env.LASTFM_API_KEY is configured
    historyLen,  \* number of scrobbles the upstream history holds now
    arrivals,    \* scrobbles that arrived since the start
    calls,       \* outbound calls issued while handling the request
    local,       \* the handler's page and indexInPage
    upstream,    \* the upstream response the handler holds
    resp,        \* the response returned to the client
    tok,         \* Spotify credential cache and its callers
    ui           \* the page: its React state and the spin in progress

vars == <<pc, endpoint, req, apiKey, historyLen, arrivals, calls, local,
          upstream, resp, tok, ui>>

\* --------------------------------------------------------- query parameters
\* searchParams.get(name): null when the parameter is absent
Null == [present |-> FALSE, text |-> <<>>]
Param(s) == [present |-> TRUE, text |-> s]
\* !param: null and the empty string are falsy
Falsy(p) == ~p.present \/ p.text = <<>>

NoRequest == [user |-> Null, n |-> Null, maxPlaycount |-> Null]

\* ----------------------------------------------------------------- responses
NoResponse == [status |-> 0, kind |-> "none", error |-> "", track |-> 0,
               maxPlaycount |-> NaN, spotify |-> "absent", cache |-> FALSE]

\* NextResponse.json({ error }, { status })
ErrorResponse(msg, st) ==
    [status |-> st, kind |-> "error", error |-> msg, track |-> 0,
     maxPlaycount |-> NaN, spotify |-> "absent", cache |-> FALSE]

\* NextResponse.json({ track }, { headers: Cache-Control }): status 200, and
\* the body has the track and nothing else
TrackResponse(tr) ==
    [status |-> 200, kind |-> "track", error |-> "", track |-> tr,
     maxPlaycount |-> NaN, spotify |-> "absent", cache |-> TRUE]

\* NextResponse.json({ maxPlaycount }, { headers: Cache-Control })
PlaycountResponse(m) ==
    [status |-> 200, kind |-> "playcount", error |-> "", track |-> 0,
     maxPlaycount |-> m, spotify |-> "absent", cache |-> TRUE]

\* the catch block of both handlers
InternalServerErrorRethrown == NoResponse
InternalServerError == ErrorResponse("Internal Server Error", 500)
MissingApiKey == ErrorResponse("Server misconfigured: Missing API key", 500)

\* ------------------------------------------------------------ the upstream
NoUpstream == [status |-> 0, body |-> "none", served |-> 0,
               playcount |-> [kind |-> "undefined", text |-> <<>>]]
\* response.ok
Ok(st) == st >= 200 /\ st <= 299

\* The history API serves the records most recent first in pages of `limit`:
\* page p of a history of `served` records holds the ranks
\* (p-1)*limit+1 .. min(p*limit, served), rank 1 being the most recent.
\* A record is named by its chronological number (1 = oldest).
PageLength(served, p) ==
    IF p < 1 \/ served <= (p - 1) * limit THEN 0
    ELSE IF served >= p * limit THEN limit ELSE served - (p - 1) * limit
PageRecord(served, p, i) == served - ((p - 1) * limit + i + 1) + 1

\* ----------------------------------------------- GET track-by-index, pieces
MissingTrackParamsNoUser(user, nParam, maxPlaycountParam) ==
    Falsy(nParam) \/ Falsy(maxPlaycountParam)
MissingTrackParams(user, nParam, maxPlaycountParam) ==
    Falsy(user) \/ Falsy(nParam) \/ Falsy(maxPlaycountParam)

InvalidIndexNoUpper(n, maxPlaycount) ==
    isNaN(n) \/ isNaN(maxPlaycount) \/ JsLess(n, Num(0))
InvalidIndex(n, maxPlaycount) ==
    isNaN(n) \/ isNaN(maxPlaycount) \/ JsLess(n, Num(1)) \/ JsGreater(n, maxPlaycount)

nFromLatest(n, maxPlaycount) == JsAdd(JsSub(maxPlaycount, n), Num(1))
pageOffByOne(nfl) == JsAdd(JsFloorDiv(nfl, limit), Num(1))
page(nfl) == JsAdd(JsFloorDiv(JsSub(nfl, Num(1)), limit), Num(1))
indexInPage(nfl) == JsRem(JsSub(nfl, Num(1)), limit)

\* data?.recenttracks?.track?.[indexInPage]; 0 stands for undefined
TrackAt(up, p, idx) ==
    IF up.body # "page" THEN 0
    ELSE IF ~IsInteger(idx) THEN 0
    ELSE IF IntOf(idx) < 0 \/ IntOf(idx) >= PageLength(up.served, p) THEN 0
    ELSE PageRecord(up.served, p, IntOf(idx))

UpstreamErrorStatusFixed(st) == IF Ok(st) THEN st ELSE 500
UpstreamErrorStatus(st) == st
TrackUpstreamError(st) ==
    ErrorResponse("Error fetching data from Last.fm API", UpstreamErrorStatus(st))

TrackNotFoundAsOk == TrackResponse(0)
TrackNotFound == ErrorResponse("Track not found at the specified index.", 404)

\* ------------------------------------------------ GET playcount, pieces
UserNotFound == ErrorResponse("Last.fm user not found", 404)
PlaycountUpstreamError(st) ==
    IF st = 404 THEN UserNotFound
    ELSE ErrorResponse("Error fetching data from Last.fm API", UpstreamErrorStatus(st))

\* playcountString === undefined || playcountString === null
PlaycountMissingUndefinedOnly(field) == field.kind = "undefined"
PlaycountMissing(field) == field.kind = "undefined" \/ field.kind = "null"
PlaycountNotFound ==
    ErrorResponse("Could not find playcount for the specified user.", 404)
InvalidPlaycountFormat ==
    ErrorResponse("Invalid playcount format received from Last.fm", 500)

\* ------------------------------------------------------------------- inputs
SampleNumbers ==
    {0, 1, 2, MaxPlaycountBound}
      \cup {k * limit + d : k \in 1..MaxPages, d \in {0 - 1, 0, 1}}
JunkTexts == { <<>>, <<"a">>, <<"-", "1">>, <<" ", "2", " ">>,
               <<"1", ".", "5">>, <<"2", "a">> }
Texts == {String(v) : v \in SampleNumbers} \cup JunkTexts
ParamValues == {Null} \cup {Param(s) : s \in Texts}
Users == {Null, Param(<<>>), Param(<<"a">>)}
UpstreamStatuses == {200, 400, 404, 429, 500, 503}
PlaycountFields ==
    {[kind |-> "undefined", text |-> <<>>], [kind |-> "null", text |-> <<>>]}
      \cup {[kind |-> "string", text |-> s] : s \in Texts}

NoLocal == [page |-> NaN, indexInPage |-> NaN]

\* ------------------------------------------------------- the page, pieces
slotLength == 7
reelSpan == 9999999

\* a number | null of the page's state
NullNumber == [known |-> FALSE, v |-> NaN]
Known(x) == [known |-> TRUE, v |-> x]
\* !x and `if (x)`: null, NaN and 0 are falsy
Truthy(x) == x.known /\ ~x.v.nan /\ x.v.t # 0
\* Math.max(a, b), Math.min(a, b)
JsMax(a, b) == IF a.nan \/ b.nan THEN NaN ELSE IF a.t >= b.t THEN a ELSE b
JsMin(a, b) == IF a.nan \/ b.nan THEN NaN ELSE IF a.t <= b.t THEN a ELSE b

\* String(x) of a number: sign, integer part, and the tenth when there is one
NumToText(x) ==
    IF x.nan THEN <<"N", "a", "N">>
    ELSE LET mag == IF x.t < 0 THEN 0 - x.t ELSE x.t
             whole == String(mag \div 10)
             digits == IF mag % 10 = 0 THEN whole
                       ELSE whole \o <<".", DigitChars[(mag % 10) + 1]>>
         IN IF x.t < 0 THEN <<"-">> \o digits ELSE digits

\* String(localMax ?? "")
NullableToText(x) == IF x.known THEN NumToText(x.v) ELSE <<>>

\* targets.reduce((acc, digit, i) => acc + digit * 10 ** (slotLength - i - 1), 0)
RECURSIVE Power10(_)
Power10(k) == IF k = 0 THEN 1 ELSE 10 * Power10(k - 1)
RECURSIVE ReelSum(_, _)
ReelSum(targets, i) ==
    IF i > Len(targets) THEN 0
    ELSE targets[i] * Power10(slotLength - (i - 1) - 1) + ReelSum(targets, i + 1)
currentNumber(targets) == ReelSum(targets, 1)

\* the digits of a non-negative integer, left-padded with zeros to slotLength
\* (the rightmost slotLength digits when there are more)
ReelDigits(i) ==
    LET digits == [k \in 1..Len(String(i)) |-> DigitVal(String(i)[k])]
    IN IF Len(digits) >= slotLength
       THEN SubSeq(digits, Len(digits) - slotLength + 1, Len(digits))
       ELSE [k \in 1..(slotLength - Len(digits)) |-> 0] \o digits

\* Math.floor(Math.random() * m) for 0 <= Math.random() < 1 ranges over
\* 0 .. ceil(m) - 1; the ends and the middle of the range are drawn
Outcomes(m) ==
    LET top == ((m.t + 9) \div 10) - 1
    IN {v \in {0, 1, top \div 2, top} : v >= 0 /\ v <= top}

\* random = Math.floor(Math.random() * 9_999_999);
\* if (localMax) random = Math.floor(Math.random() * Math.max(1, localMax))
RandomIndex(localMax) ==
    IF Truthy(localMax) THEN Outcomes(JsMax(Num(1), localMax.v))
    ELSE Outcomes(Num(reelSpan))

\* Math.min(currentNumber, Math.max(1, maxPlaycount)) when maxPlaycount != null
clampedNumberUnclamped(current, maxPlaycount) == current
clampedNumber(current, maxPlaycount) ==
    IF maxPlaycount.known THEN JsMin(current, JsMax(Num(1), maxPlaycount.v))
    ELSE current
\* clampedNumber === 0 ? 1 : clampedNumber
finalNumber(clamped) == IF ~clamped.nan /\ clamped.t = 0 THEN Num(1) ELSE clamped

\* typeof data.maxPlaycount === "number" ? data.maxPlaycount : null
PlaycountOf(res) ==
    IF res.kind = "playcount" THEN Known(res.maxPlaycount) ELSE NullNumber

\* what the spin does with the playcount response: the status it shows when
\* it returns early, "ok" when it goes on to the track
playcountOutcomeUnchecked(res) == "ok"
playcountOutcome(res) ==
    IF ~Ok(res.status) THEN "Server error"
    ELSE IF ~PlaycountOf(res).known THEN "No data"
    ELSE "ok"

NoQuery == [n |-> <<>>, maxPlaycount |-> <<>>]
\* what setTrack receives: the parsed body of the response
NoTrack == [status |-> 0, track |-> 0]
NoUi == [pc |-> "idle", spin |-> "none", username |-> Null,
         maxPlaycount |-> NullNumber, held |-> NullNumber,
         localMax |-> NullNumber, index |-> NaN, loading |-> FALSE,
         status |-> "", track |-> NoTrack,
         targets |-> [k \in 1..slotLength |-> 0],
         query |-> NoQuery, fetches |-> <<>>, log |-> <<>>]

\* ---------------------------------------------- Spotify credential cache
\* The enricher is not among the source files; its credential handling is
\* modelled from section 4.3 of the specification.
SafetyMargin == 15
Callers == {"r1", "r2"}
TokenLifetimes == {10, 20}
NoPair == [token |-> 0, expiresAt |-> 0]
\* a call: where it stands, the time and the cache it started with, the
\* exchanges it issued, the credential it uses, when and with which lifetime
\* it stored one, and what it returns
NoCaller == [pc |-> "idle", startedAt |-> 0, seen |-> NoPair,
             exchanges |-> 0, pair |-> NoPair,
             storedAt |-> 0, lifetime |-> 0, result |-> "none"]
NoTok == [cache |-> NoPair, now |-> 0, creds |-> TRUE, minted |-> 0,
          issued |-> {}, callers |-> [c \in Callers |-> NoCaller]]

\* step 1: a cached token is reused when the current time is more than the
\* safety margin before its expiry
TokenValidNoMargin(cache, now) == cache.token # 0 /\ now < cache.expiresAt
TokenValid(cache, now) ==
    cache.token # 0 /\ now < cache.expiresAt - SafetyMargin

\* step 2: the new token and its absolute expiry overwrite the cache together
StoreTokenKeepExpiry(cache, token, expiresAt) ==
    [token |-> token,
     expiresAt |-> IF cache.token # 0 THEN cache.expiresAt ELSE expiresAt]
StoreToken(cache, token, expiresAt) == [token |-> token, expiresAt |-> expiresAt]

\* ----------------------------------------------------- GET track-by-index
\* The handler up to `await fetch(...)`: parameters, validation, API key,
\* pagination, and the outbound call.
TrackGET(user, nParam, maxPlaycountParam) ==
    /\ pc = "idle"
    /\ endpoint' = "track"
    /\ req' = [user |-> user, n |-> nParam, maxPlaycount |-> maxPlaycountParam]
    /\ LET n == Number(nParam.text)
           maxPlaycount == Number(maxPlaycountParam.text)
           nfl == nFromLatest(n, maxPlaycount)
       IN IF MissingTrackParams(user, nParam, maxPlaycountParam)
          THEN /\ resp' = ErrorResponse(
                     "Missing required parameters: user, n, maxPlaycount", 400)
               /\ pc' = "done"
               /\ UNCHANGED <<calls, local>>
          ELSE IF InvalidIndex(n, maxPlaycount)
          THEN /\ resp' = ErrorResponse("Invalid 'n' or 'maxPlaycount' value", 400)
               /\ pc' = "done"
               /\ UNCHANGED <<calls, local>>
          ELSE IF ~apiKey
          THEN /\ resp' = MissingApiKey
               /\ pc' = "done"
               /\ UNCHANGED <<calls, local>>
          ELSE /\ local' = [page |-> page(nfl), indexInPage |-> indexInPage(nfl)]
               /\ calls' = Append(calls, [method |-> "user.getRecentTracks",
                                          page |-> IntOf(page(nfl))])
               /\ pc' = "awaitFetch"
               /\ UNCHANGED resp
    /\ UNCHANGED <<apiKey, historyLen, arrivals, upstream, tok, ui>>

\* fetch rejects (network failure): the catch block answers 500
TrackFetchRejects ==
    /\ pc = "awaitFetch" /\ endpoint = "track"
    /\ resp' = InternalServerError
    /\ pc' = "done"
    /\ UNCHANGED <<endpoint, req, apiKey, historyLen, arrivals, calls, local,
                   upstream, tok, ui>>

\* fetch resolves with the upstream's status; the upstream answers from the
\* history it holds at that moment
TrackFetchResolves(st, body) ==
    /\ pc = "awaitFetch" /\ endpoint = "track"
    /\ upstream' = [status |-> st, body |-> IF Ok(st) THEN body ELSE "error",
                    served |-> historyLen,
                    playcount |-> [kind |-> "undefined", text |-> <<>>]]
    /\ IF ~Ok(st)
       THEN /\ resp' = TrackUpstreamError(st)
            /\ pc' = "done"
       ELSE /\ pc' = "awaitJson"
            /\ UNCHANGED resp
    /\ UNCHANGED <<endpoint, req, apiKey, historyLen, arrivals, calls, local,
                   tok, ui>>

\* `await response.json()` and the lookup of the track
TrackJson ==
    /\ pc = "awaitJson" /\ endpoint = "track"
    /\ LET track == TrackAt(upstream, IntOf(local.page), local.indexInPage)
       IN resp' = IF upstream.body = "unparsable" THEN InternalServerError
                  ELSE IF track = 0 THEN TrackNotFound
                  ELSE TrackResponse(track)
    /\ pc' = "done"
    /\ UNCHANGED <<endpoint, req, apiKey, historyLen, arrivals, calls, local,
                   upstream, tok, ui>>

\* --------------------------------------------------------- GET playcount
PlaycountGET(user) ==
    /\ pc = "idle"
    /\ endpoint' = "playcount"
    /\ req' = [user |-> user, n |-> Null, maxPlaycount |-> Null]
    /\ IF Falsy(user)
       THEN /\ resp' = ErrorResponse("Missing required parameter: user", 400)
            /\ pc' = "done"
            /\ UNCHANGED calls
       ELSE IF ~apiKey
       THEN /\ resp' = MissingApiKey
            /\ pc' = "done"
            /\ UNCHANGED calls
       ELSE /\ calls' = Append(calls, [method |-> "user.getinfo", page |-> 0])
            /\ pc' = "awaitFetch"
            /\ UNCHANGED resp
    /\ UNCHANGED <<apiKey, historyLen, arrivals, local, upstream, tok, ui>>

PlaycountFetchRejects ==
    /\ pc = "awaitFetch" /\ endpoint = "playcount"
    /\ resp' = InternalServerError
    /\ pc' = "done"
    /\ UNCHANGED <<endpoint, req, apiKey, historyLen, arrivals, calls, local,
                   upstream, tok, ui>>

PlaycountFetchResolves(st, body, field) ==
    /\ pc = "awaitFetch" /\ endpoint = "playcount"
    /\ upstream' = [status |-> st, body |-> IF Ok(st) THEN body ELSE "error",
                    served |-> historyLen,
                    playcount |-> IF Ok(st) /\ body = "user" THEN field
                                  ELSE [kind |-> "undefined", text |-> <<>>]]
    /\ IF ~Ok(st)
       THEN /\ resp' = PlaycountUpstreamError(st)
            /\ pc' = "done"
       ELSE /\ pc' = "awaitJson"
            /\ UNCHANGED resp
    /\ UNCHANGED <<endpoint, req, apiKey, historyLen, arrivals, calls, local,
                   tok, ui>>

PlaycountJson ==
    /\ pc = "awaitJson" /\ endpoint = "playcount"
    /\ LET playcountString == upstream.playcount
           maxPlaycount == Number(playcountString.text)
       IN resp' = IF upstream.body = "unparsable" THEN InternalServerError
                  ELSE IF PlaycountMissing(playcountString) THEN PlaycountNotFound
                  ELSE IF isNaN(maxPlaycount) THEN InvalidPlaycountFormat
                  ELSE PlaycountResponse(maxPlaycount)
    /\ pc' = "done"
    /\ UNCHANGED <<endpoint, req, apiKey, historyLen, arrivals, calls, local,
                   upstream, tok, ui>>

\* ------------------------------------------------------------ environment
\* a new scrobble enters the history at its recent end, between the moment
\* the client learned the playcount and the moment the upstream answers
Scrobble ==
    /\ pc = "awaitFetch"
    /\ arrivals < MaxArrivals
    /\ historyLen' = historyLen + 1
    /\ arrivals' = arrivals + 1
    /\ UNCHANGED <<pc, endpoint, req, apiKey, calls, local, upstream, resp,
                   tok, ui>>

\* the response has been sent; the next request starts a fresh invocation
Complete ==
    /\ pc = "done"
    /\ pc' = "idle"
    /\ endpoint' = "none"
    /\ req' = NoRequest
    /\ calls' = <<>>
    /\ local' = NoLocal
    /\ upstream' = NoUpstream
    /\ resp' = NoResponse
    /\ UNCHANGED <<apiKey, historyLen, arrivals, tok, ui>>

Init ==
    /\ pc = "idle"
    /\ endpoint = "none"
    /\ req = NoRequest
    /\ apiKey \in BOOLEAN
    /\ historyLen \in SampleNumbers
    /\ arrivals = 0
    /\ calls = <<>>
    /\ local = NoLocal
    /\ upstream = NoUpstream
    /\ resp = NoResponse
    /\ tok = NoTok
    /\ ui = NoUi

Next ==
    \/ /\ pc = "idle"
       /\ \E user \in Users, nParam \in ParamValues, maxPlaycountParam \in ParamValues :
              TrackGET(user, nParam, maxPlaycountParam)
    \/ TrackFetchRejects
    \/ /\ pc = "awaitFetch" /\ endpoint = "track"
       /\ \E st \in UpstreamStatuses, body \in {"page", "noList", "unparsable"} :
              TrackFetchResolves(st, body)
    \/ TrackJson
    \/ \E user \in Users : PlaycountGET(user)
    \/ PlaycountFetchRejects
    \/ /\ pc = "awaitFetch" /\ endpoint = "playcount"
       /\ \E st \in UpstreamStatuses, body \in {"user", "unparsable"},
             field \in PlaycountFields :
              PlaycountFetchResolves(st, body, field)
    \/ PlaycountJson
    \/ Scrobble
    \/ Complete

Spec == Init /\ [][Next]_vars

\* ------------------------------------------------- pagination, exhaustively
\* The track-by-index handler on every request (n, maxPlaycount) with
\* 1 <= n <= maxPlaycount <= MaxPlaycountBound, sent as the decimal strings
\* a client puts in the query, with the user present and the key configured.
InitPagination ==
    /\ pc = "idle"
    /\ endpoint = "none"
    /\ req = NoRequest
    /\ apiKey = TRUE
    /\ historyLen = 0
    /\ arrivals = 0
    /\ calls = <<>>
    /\ local = NoLocal
    /\ upstream = NoUpstream
    /\ resp = NoResponse
    /\ tok = NoTok
    /\ ui = NoUi

NextPagination ==
    /\ pc = "idle"
    /\ \E maxPlaycount \in 1..MaxPlaycountBound :
         \E n \in 1..maxPlaycount :
           TrackGET(Param(<<"a">>), Param(String(n)), Param(String(maxPlaycount)))

SpecPagination == InitPagination /\ [][NextPagination]_vars

\* -------------------------------------------------- enrichment calls
SetCaller(c, r) == [tok EXCEPT !.callers[c] = r]
HandlerVars == <<pc, endpoint, req, apiKey, historyLen, arrivals, calls, local,
                 upstream, resp, ui>>

\* An enrichment call reads the cache: a valid token is reused; otherwise the
\* call aborts when the client credentials are unset, or asks for a new token.
EnrichStart(c) ==
    LET me == tok.callers[c]
        begun == [me EXCEPT !.startedAt = tok.now, !.seen = tok.cache]
    IN /\ me.pc = "idle"
       /\ IF TokenValid(tok.cache, tok.now)
          THEN tok' = SetCaller(c, [begun EXCEPT !.pc = "searching",
                                                 !.pair = tok.cache])
          ELSE IF ~tok.creds
          THEN tok' = SetCaller(c, [begun EXCEPT !.pc = "done",
                                                 !.result = "null"])
          ELSE /\ tok.minted + Cardinality({d \in Callers :
                                  tok.callers[d].pc = "exchanging"}) < MaxExchanges
               /\ tok' = SetCaller(c, [begun EXCEPT !.pc = "exchanging",
                                                    !.exchanges = @ + 1])
       /\ UNCHANGED HandlerVars

\* The credential exchange answers with a new token and its lifetime; the
\* call stores the token with its absolute expiry and goes on to the search.
ExchangeSucceeds(c, lifetime) ==
    LET me == tok.callers[c]
        token == tok.minted + 1
        expiresAt == tok.now + lifetime
        stored == StoreToken(tok.cache, token, expiresAt)
    IN /\ me.pc = "exchanging"
       /\ tok' = [tok EXCEPT !.cache = stored,
                             !.minted = token,
                             !.issued = @ \cup {[token |-> token,
                                                 expiresAt |-> expiresAt]},
                             !.callers[c] = [me EXCEPT !.pc = "searching",
                                                       !.pair = stored,
                                                       !.storedAt = tok.now,
                                                       !.lifetime = lifetime]]
       /\ UNCHANGED HandlerVars

\* The credential exchange fails: the enrichment yields null, the cache stays
ExchangeFails(c) ==
    LET me == tok.callers[c]
    IN /\ me.pc = "exchanging"
       /\ tok' = SetCaller(c, [me EXCEPT !.pc = "done", !.result = "null"])
       /\ UNCHANGED HandlerVars

\* The search answers: one result, no result, or a non-success status
SearchReturns(c, outcome) ==
    LET me == tok.callers[c]
    IN /\ me.pc = "searching"
       /\ tok' = SetCaller(c, [me EXCEPT !.pc = "done",
                                         !.result = IF outcome = "match"
                                                    THEN "match" ELSE "null"])
       /\ UNCHANGED HandlerVars

\* The enrichment call has returned to its caller
EnrichReturn(c) ==
    /\ tok.callers[c].pc = "done"
    /\ tok' = SetCaller(c, NoCaller)
    /\ UNCHANGED HandlerVars

Tick ==
    /\ tok.now + TickSeconds <= MaxTime
    /\ tok' = [tok EXCEPT !.now = @ + TickSeconds]
    /\ UNCHANGED HandlerVars

InitEnrich ==
    /\ pc = "idle"
    /\ endpoint = "none"
    /\ req = NoRequest
    /\ apiKey = TRUE
    /\ historyLen = 0
    /\ arrivals = 0
    /\ calls = <<>>
    /\ local = NoLocal
    /\ upstream = NoUpstream
    /\ resp = NoResponse
    /\ \E creds \in BOOLEAN : tok = [NoTok EXCEPT !.creds = creds]
    /\ ui = NoUi

NextEnrich ==
    \/ \E c \in Callers : EnrichStart(c)
    \/ \E c \in Callers, lifetime \in TokenLifetimes : ExchangeSucceeds(c, lifetime)
    \/ \E c \in Callers : ExchangeFails(c)
    \/ \E c \in Callers, outcome \in {"match", "none", "error"} :
           SearchReturns(c, outcome)
    \/ \E c \in Callers : EnrichReturn(c)
    \/ Tick

SpecEnrich == InitEnrich /\ [][NextEnrich]_vars

\* ---------------------------------------------------- the handlers, fairly
\* An outbound fetch settles (it resolves or rejects) and the reading of a
\* body settles: a handler that waits on one of them is eventually resumed.
FetchSettles ==
    \/ TrackFetchRejects
    \/ \E st \in UpstreamStatuses, body \in {"page", "noList", "unparsable"} :
           TrackFetchResolves(st, body)
    \/ PlaycountFetchRejects
    \/ \E st \in UpstreamStatuses, body \in {"user", "unparsable"},
          field \in PlaycountFields :
           PlaycountFetchResolves(st, body, field)
JsonSettles == TrackJson \/ PlaycountJson

SpecLive == Spec /\ WF_vars(FetchSettles) /\ WF_vars(JsonSettles)

\* --------------------------------------------------------------- the page
\* One spin runs at a time.  A spin is cut at its awaits; the route handlers
\* above serve its two fetches.
ServerVars == <<pc, endpoint, req, calls, local, upstream, resp>>
EnvVars == <<apiKey, historyLen, arrivals, tok>>

\* the handler invocation is over once its response has been read
ServerReset ==
    /\ pc' = "idle"
    /\ endpoint' = "none"
    /\ req' = NoRequest
    /\ calls' = <<>>
    /\ local' = NoLocal
    /\ upstream' = NoUpstream
    /\ resp' = NoResponse

\* the locals of a spin die with it
EndSpin(u) ==
    [u EXCEPT !.pc = "idle", !.spin = "none", !.held = NullNumber,
              !.localMax = NullNumber, !.index = NaN, !.query = NoQuery,
              !.fetches = <<>>, !.log = <<>>]

Methods(cs) == [k \in 1..Len(cs) |-> cs[k].method]

\* onChange of the username input
TypeUsername(u) ==
    /\ ui.pc = "idle"
    /\ ui.username # u
    /\ ui' = [ui EXCEPT !.username = u]
    /\ UNCHANGED <<ServerVars, EnvVars>>

\* digit and backspace keys have left the reels showing `digits`
TypeReels(digits) ==
    /\ ui.pc = "idle"
    /\ ui.targets # digits
    /\ ui' = [ui EXCEPT !.targets = digits]
    /\ UNCHANGED <<ServerVars, EnvVars>>

\* the start of a spin, up to the fetch of the playcount
BeginSpin(kind) ==
    [ui EXCEPT !.pc = "awaitPlaycount", !.spin = kind, !.loading = TRUE,
               !.held = ui.maxPlaycount, !.localMax = ui.maxPlaycount,
               !.maxPlaycount = NullNumber, !.track = NoTrack,
               !.status = "Fetching", !.fetches = <<"max-playcount">>,
               !.log = <<>>]

\* spinRandom: Spin button, Space, Enter in the username input
SpinRandomStart ==
    /\ ui.pc = "idle"
    /\ IF Falsy(ui.username)
       THEN /\ ui.status # "Enter a Last.fm username"
            /\ ui' = [ui EXCEPT !.status = "Enter a Last.fm username"]
       ELSE ui' = BeginSpin("random")
    /\ UNCHANGED <<ServerVars, EnvVars>>

\* spinCurrent: Enter on the reels; nothing happens without a playcount
SpinCurrentStart ==
    /\ ui.pc = "idle"
    /\ Truthy(ui.maxPlaycount) /\ ~Falsy(ui.username)
    /\ ui' = BeginSpin("current")
    /\ UNCHANGED <<ServerVars, EnvVars>>

\* the playcount route receives the spin's request
ServePlaycount ==
    /\ ui.pc = "awaitPlaycount"
    /\ PlaycountGET(ui.username)

\* the fetch of the playcount throws: the catch block returns
PlaycountFetchThrows ==
    /\ ui.pc = "awaitPlaycount" /\ pc = "idle"
    /\ ui' = EndSpin([ui EXCEPT !.status = "Error fetching"])
    /\ UNCHANGED <<ServerVars, EnvVars>>

\* the index and the bound a spin sends to the track route
RandomQuery(random, localMax) ==
    [n |-> String(random), maxPlaycount |-> NullableToText(localMax)]
CurrentQuery(final, maxPlaycount) ==
    [n |-> NumToText(final), maxPlaycount |-> NullableToText(maxPlaycount)]

\* the playcount response arrives: the spin returns early, or stores the
\* bound, picks its index and fetches the track
SpinPlaycountResponse ==
    /\ ui.pc = "awaitPlaycount" /\ pc = "done" /\ endpoint = "playcount"
    /\ LET outcome == playcountOutcome(resp)
           localMax == PlaycountOf(resp)
           seen == [ui EXCEPT !.log = @ \o Methods(calls)]
           going == [seen EXCEPT !.pc = "awaitTrack",
                                 !.localMax = localMax,
                                 !.maxPlaycount = localMax,
                                 !.status = "has scrobbles",
                                 !.fetches = Append(@, "get-nth-song")]
           final == finalNumber(clampedNumber(Num(currentNumber(ui.targets)),
                                              ui.held))
       IN IF outcome # "ok"
          THEN ui' = EndSpin([seen EXCEPT !.status = outcome])
          ELSE IF ui.spin = "random"
          THEN \E random \in RandomIndex(localMax) :
                 ui' = [going EXCEPT !.index = Num(random),
                                     !.query = RandomQuery(random, localMax)]
          ELSE ui' = [going EXCEPT !.index = final,
                                   !.query = CurrentQuery(final, ui.held)]
    /\ ServerReset
    /\ UNCHANGED EnvVars

\* the track route receives the spin's request
ServeTrack ==
    /\ ui.pc = "awaitTrack"
    /\ TrackGET(ui.username, Param(ui.query.n), Param(ui.query.maxPlaycount))

\* the reels after the spin: the digits of the index sent
ReelsAfter(u) ==
    IF IsInteger(u.index) /\ IntOf(u.index) >= 0 THEN ReelDigits(IntOf(u.index))
    ELSE u.targets

\* the fetch of the track throws: loading is released in both spins; the
\* random spin goes on to set the reels, the other one is left by the fault
TrackFetchThrows ==
    /\ ui.pc = "awaitTrack" /\ pc = "idle"
    /\ ui' = EndSpin([ui EXCEPT !.loading = FALSE,
                                !.targets = IF ui.spin = "random"
                                            THEN ReelsAfter(ui) ELSE @])
    /\ UNCHANGED <<ServerVars, EnvVars>>

\* the track response arrives: the body is shown, loading is released, the
\* reels take the digits of the index
SpinTrackResponse ==
    /\ ui.pc = "awaitTrack" /\ pc = "done" /\ endpoint = "track"
    /\ ui' = EndSpin([ui EXCEPT !.track = [status |-> resp.status,
                                           track |-> resp.track],
                                !.loading = FALSE,
                                !.targets = ReelsAfter(ui)])
    /\ ServerReset
    /\ UNCHANGED EnvVars

\* ------------------------------------------------- the page with its routes
SampleReels == {ReelDigits(v) : v \in {0, 1, 2, MaxPlaycountBound + 1, reelSpan}}
TypedUsers == {Param(<<>>), Param(<<"a">>)}
ClientPlaycountFields ==
    {[kind |-> "undefined", text |-> <<>>], [kind |-> "string", text |-> <<"a">>]}
      \cup {[kind |-> "string", text |-> String(v)] :
               v \in {0, 1, 2, MaxPlaycountBound}}
ClientStatuses == {200, 404, 500}

InitClient ==
    /\ pc = "idle"
    /\ endpoint = "none"
    /\ req = NoRequest
    /\ apiKey \in BOOLEAN
    /\ historyLen \in {2, MaxPlaycountBound}
    /\ arrivals = 0
    /\ calls = <<>>
    /\ local = NoLocal
    /\ upstream = NoUpstream
    /\ resp = NoResponse
    /\ tok = NoTok
    /\ ui = NoUi

NextClient ==
    \/ \E u \in TypedUsers : TypeUsername(u)
    \/ \E digits \in SampleReels : TypeReels(digits)
    \/ SpinRandomStart
    \/ SpinCurrentStart
    \/ ServePlaycount
    \/ PlaycountFetchThrows
    \/ PlaycountFetchRejects
    \/ /\ pc = "awaitFetch" /\ endpoint = "playcount"
       /\ \E st \in ClientStatuses, field \in ClientPlaycountFields :
              PlaycountFetchResolves(st, "user", field)
    \/ PlaycountJson
    \/ SpinPlaycountResponse
    \/ ServeTrack
    \/ TrackFetchThrows
    \/ TrackFetchRejects
    \/ /\ pc = "awaitFetch" /\ endpoint = "track"
       /\ \E st \in ClientStatuses : TrackFetchResolves(st, "page")
    \/ TrackJson
    \/ SpinTrackResponse

SpecClient == InitClient /\ [][NextClient]_vars

\* =================================================================== claims
\* the request being handled, read as the handler reads it
ReqN == Number(req.n.text)
ReqMax == Number(req.maxPlaycount.text)
ReqComplete == ~Falsy(req.user) /\ ~Falsy(req.n) /\ ~Falsy(req.maxPlaycount)
ReqIntegers == IsInteger(ReqN) /\ IsInteger(ReqMax)
TrackDone == endpoint = "track" /\ pc = "done"
PlaycountDone == endpoint = "playcount" /\ pc = "done"

\* C1: for integers 1 <= n <= maxPlaycount the page asked of the history API
\* is floor((maxPlaycount - n) / 200) + 1 and the offset read from it is
\* (maxPlaycount - n) mod 200; maxPlaycount = 500 gives page 3 offset 99 for
\* n = 1 and page 1 offset 0 for n = 500.
C1_PageAndOffset ==
    (/\ endpoint = "track" /\ ReqComplete /\ ReqIntegers /\ apiKey
     /\ IntOf(ReqN) >= 1 /\ IntOf(ReqN) <= IntOf(ReqMax))
    => LET m == IntOf(ReqMax)
           n == IntOf(ReqN)
       IN /\ calls = <<[method |-> "user.getRecentTracks",
                        page |-> ((m - n) \div 200) + 1]>>
          /\ local.page = Num(((m - n) \div 200) + 1)
          /\ local.indexInPage = Num((m - n) % 200)
          /\ (m = 500 /\ n = 1) => (calls[1].page = 3 /\ local.indexInPage = Num(99))
          /\ (m = 500 /\ n = 500) => (calls[1].page = 1 /\ local.indexInPage = Num(0))

C1_Witness ==
    /\ pc = "awaitFetch" /\ endpoint = "track"
    /\ req.n = Param(<<"1">>) /\ req.maxPlaycount = Param(<<"5", "0", "0">>)
    /\ calls[1].page = 3 /\ local.indexInPage = Num(99)

\* C2: when the history holds exactly maxPlaycount records, served most
\* recent first and unchanged, a valid request with index n is answered with
\* the n-th most recent record (n = 1 the most recent, n = maxPlaycount the
\* oldest).  Records are numbered from the oldest, so the n-th most recent
\* of `served` records is number served - n + 1.
C2_NthMostRecent ==
    (/\ TrackDone /\ ReqComplete /\ ReqIntegers
     /\ IntOf(ReqN) >= 1 /\ IntOf(ReqN) <= IntOf(ReqMax)
     /\ arrivals = 0
     /\ upstream.body = "page" /\ upstream.served = IntOf(ReqMax))
    => /\ resp.kind = "track"
       /\ resp.track = upstream.served - IntOf(ReqN) + 1

\* C3: a track-by-index request whose n is below 1 or above maxPlaycount ends
\* with status 400 and issues no outbound call; when the request carries its
\* three parameters the response is the invalid-index one.
C3_InvalidIndexRejected ==
    (/\ endpoint = "track"
     /\ (JsLess(ReqN, Num(1)) \/ JsGreater(ReqN, ReqMax)))
    => /\ pc = "done"
       /\ resp.status = 400
       /\ resp.kind = "error"
       /\ ReqComplete => resp.error = "Invalid 'n' or 'maxPlaycount' value"
       /\ calls = <<>>

C3_Witness ==
    /\ TrackDone /\ ReqComplete
    /\ ReqN = Num(201) /\ ReqMax = Num(200)
    /\ resp.status = 400 /\ calls = <<>>

\* C4: on both endpoints a request whose user parameter is absent or empty
\* ends with the missing-parameter response, status 400, and issues no
\* outbound call.
C4_MissingUserRejected ==
    (endpoint \in {"track", "playcount"} /\ Falsy(req.user))
    => /\ pc = "done"
       /\ resp.status = 400
       /\ resp.kind = "error"
       /\ resp.error = IF endpoint = "track"
                       THEN "Missing required parameters: user, n, maxPlaycount"
                       ELSE "Missing required parameter: user"
       /\ calls = <<>>

C4_Witness ==
    /\ TrackDone /\ req.user = Param(<<>>)
    /\ req.n = Param(<<"1">>) /\ req.maxPlaycount = Param(<<"2">>)
    /\ resp.status = 400 /\ calls = <<>>

\* C5: whenever the history lookup finds a record at the computed offset the
\* response has status 200 and a body with the track and a spotify field
\* that is a match or null.
C5_TrackWithSpotifyField ==
    (/\ TrackDone /\ upstream.body = "page"
     /\ TrackAt(upstream, IntOf(local.page), local.indexInPage) # 0)
    => /\ resp.status = 200
       /\ resp.track # 0
       /\ resp.spotify \in {"match", "null"}

\* the calls that are past their reading of the cache
Started(c) == tok.callers[c].pc # "idle"
\* what a call found: a token whose expiry was more than 15 seconds away
SawValid(c) ==
    /\ tok.callers[c].seen.token # 0
    /\ tok.callers[c].seen.expiresAt - tok.callers[c].startedAt > 15
Refreshed(c) ==
    /\ tok.callers[c].exchanges = 1
    /\ tok.callers[c].pair.token # 0
    /\ tok.callers[c].pair.token # tok.callers[c].seen.token
    /\ tok.callers[c].pair.expiresAt
         = tok.callers[c].storedAt + tok.callers[c].lifetime
    /\ tok.callers[c].pair \in tok.issued
Reused(c) ==
    /\ tok.callers[c].exchanges = 0
    /\ tok.callers[c].pair = tok.callers[c].seen

\* C6 as stated: an enrichment call that finds a cached token more than 15
\* seconds from expiry reuses it without an exchange; a call that finds the
\* cache absent or within 15 seconds of expiry performs exactly one exchange
\* and overwrites the cache with the new token and its new expiry.
C6_ReuseOrExactlyOneRefresh ==
    \A c \in Callers :
      tok.callers[c].pc \in {"searching", "done"}
        => IF SawValid(c) THEN Reused(c) ELSE Refreshed(c)

\* C6 amended: the refresh is performed when the client credentials are
\* configured, and the cache is overwritten when the exchange succeeds; with
\* the credentials unset the call issues no exchange, and after a failed
\* exchange or without credentials the call returns null and the cache stays.
C6_State ==
    \A c \in Callers :
      Started(c)
        => IF SawValid(c) THEN Reused(c)
           ELSE IF ~tok.creds
           THEN /\ tok.callers[c].exchanges = 0
                /\ tok.callers[c].pc = "done"
                /\ tok.callers[c].result = "null"
                /\ tok.callers[c].pair = NoPair
           ELSE /\ tok.callers[c].exchanges = 1
                /\ tok.callers[c].pc = "searching" => Refreshed(c)
                /\ tok.callers[c].pc = "done"
                     => \/ Refreshed(c)
                        \/ /\ tok.callers[c].pair = NoPair
                           /\ tok.callers[c].result = "null"
C6_Step ==
    \A c \in Callers :
      /\ (tok.callers[c].pc = "exchanging" /\ tok'.callers[c].pc = "searching")
           => /\ tok'.cache = tok'.callers[c].pair
              /\ tok'.cache.token \notin {p.token : p \in tok.issued}
              /\ tok'.cache.expiresAt = tok.now + tok'.callers[c].lifetime
      /\ (tok.callers[c].pc = "exchanging" /\ tok'.callers[c].pc = "done")
           => tok'.cache = tok.cache
      /\ (tok.callers[c].pc = "idle" /\ tok'.callers[c].pc # "idle")
           => tok'.cache = tok.cache
C6_ReuseOrRefreshWithCredentials == []C6_State /\ [][C6_Step]_vars

\* a call that found a token exactly 15 seconds from expiry and replaced it
C6_Witness ==
    \E c \in Callers :
      /\ tok.callers[c].pc = "searching"
      /\ tok.callers[c].seen.token # 0
      /\ tok.callers[c].seen.expiresAt - tok.callers[c].startedAt = 15
      /\ Refreshed(c)
      /\ tok.cache = tok.callers[c].pair

\* C7: under every interleaving of enrichment calls the cached credential is
\* absent or the complete (token, expiry) pair one exchange returned, and no
\* call uses a token with an expiry that is not its own; a race only causes
\* redundant exchanges.
C7_CacheIsOneExchangesPair ==
    /\ tok.cache = NoPair \/ tok.cache \in tok.issued
    /\ \A p, q \in tok.issued : p.token = q.token => p = q
    /\ \A c \in Callers :
         tok.callers[c].pc = "searching" => tok.callers[c].pair \in tok.issued

\* two calls found the same stale cache, both exchanged, the last write won
C7_Witness ==
    /\ tok.callers["r1"].pc = "searching" /\ tok.callers["r2"].pc = "searching"
    /\ tok.callers["r1"].seen = tok.callers["r2"].seen
    /\ tok.callers["r1"].exchanges = 1 /\ tok.callers["r2"].exchanges = 1
    /\ tok.callers["r1"].pair # tok.callers["r2"].pair
    /\ tok.cache = tok.callers["r2"].pair
    /\ tok.cache.token = 2

\* C8 as stated: in the playcount endpoint, when the upstream call succeeds
\* and the playcount field is missing (undefined or null) or not numeric, the
\* response has status 500.
C8_MissingOrNotNumericIs500 ==
    (/\ PlaycountDone /\ Ok(upstream.status) /\ upstream.body = "user"
     /\ (upstream.playcount.kind \in {"undefined", "null"}
         \/ isNaN(Number(upstream.playcount.text))))
    => resp.status = 500

\* C8 amended: a missing playcount (undefined or null) is answered with
\* status 404, "Could not find playcount for the specified user."; a
\* playcount that is present and converts to NaN is answered with status 500,
\* "Invalid playcount format received from Last.fm".
C8_MissingIs404NotNumericIs500 ==
    (PlaycountDone /\ Ok(upstream.status) /\ upstream.body = "user")
    => /\ upstream.playcount.kind \in {"undefined", "null"}
            => /\ resp.status = 404
               /\ resp.error = "Could not find playcount for the specified user."
       /\ (upstream.playcount.kind = "string"
             /\ isNaN(Number(upstream.playcount.text)))
            => /\ resp.status = 500
               /\ resp.error = "Invalid playcount format received from Last.fm"

C8_Witness ==
    /\ PlaycountDone /\ Ok(upstream.status) /\ upstream.body = "user"
    /\ upstream.playcount.kind = "null"
    /\ resp.status = 404

\* C9: on both endpoints a non-success upstream status s is answered with an
\* error of status s (404 on the playcount endpoint says the user was not
\* found), without success body or cache directive.
C9_UpstreamStatusPassedThrough ==
    (/\ pc = "done" /\ endpoint \in {"track", "playcount"}
     /\ upstream.status # 0 /\ ~Ok(upstream.status))
    => /\ resp.status = upstream.status
       /\ resp.kind = "error"
       /\ resp.track = 0
       /\ ~resp.cache
       /\ (endpoint = "playcount" /\ upstream.status = 404)
            => resp.error = "Last.fm user not found"

C9_Witness ==
    /\ TrackDone /\ upstream.status = 503
    /\ resp.status = 503 /\ resp.kind = "error"

\* C10: when the page is fetched successfully and holds no record at
\* indexInPage, the response is the track-not-found error, status 404, and
\* carries no track.
C10_AbsentRecordIs404 ==
    (/\ TrackDone /\ Ok(upstream.status)
     /\ \/ upstream.body = "noList"
        \/ /\ upstream.body = "page"
           /\ \/ ~IsInteger(local.indexInPage)
              \/ IntOf(local.indexInPage)
                   >= PageLength(upstream.served, IntOf(local.page)))
    => /\ resp.status = 404
       /\ resp.error = "Track not found at the specified index."
       /\ resp.kind = "error"
       /\ resp.track = 0

\* the history is shorter than the playcount the request carries
C10_Witness ==
    /\ TrackDone /\ upstream.body = "page"
    /\ ReqMax = Num(500) /\ ReqN = Num(1) /\ upstream.served < 401
    /\ resp.status = 404

\* C11: every invocation of either endpoint ends with exactly one response,
\* and a fault raised while handling (the outbound fetch rejecting, the
\* upstream body not parsing as JSON) is answered with the error response of
\* status 500: a response exists exactly when the invocation is over, it is
\* an error, a track or a playcount, it is not replaced once written, and
\* every invocation that began gets there.
C11_Responded ==
    /\ pc = "done" => /\ resp.kind \in {"error", "track", "playcount"}
                      /\ resp.status >= 200 /\ resp.status <= 599
    /\ pc # "done" => resp = NoResponse
C11_FaultIs500 ==
    (/\ pc = "done"
     /\ \/ calls # <<>> /\ upstream.status = 0
        \/ upstream.body = "unparsable")
    => /\ resp.kind = "error" /\ resp.status = 500
       /\ resp.error = "Internal Server Error"
C11_WrittenOnce ==
    resp # NoResponse => (resp' = resp \/ (pc' = "idle" /\ resp' = NoResponse))
C11_OneResponseFaultsAre500 ==
    /\ [](C11_Responded /\ C11_FaultIs500)
    /\ [][C11_WrittenOnce]_vars
    /\ (pc # "idle" ~> pc = "done")

C11_Witness ==
    /\ TrackDone /\ calls # <<>> /\ upstream.body = "unparsable"
    /\ resp.status = 500 /\ resp.error = "Internal Server Error"

\* the outbound calls of the running spin, in the order they were issued
SpinCalls == ui.log \o Methods(calls)
IsPrefix(s, t) == Len(s) <= Len(t) /\ \A k \in 1..Len(s) : s[k] = t[k]

\* C12: a spin issues its outbound calls in sequence, the playcount lookup
\* before the history-page lookup, at most three in all and none of them
\* twice; the track is asked for only after the playcount lookup has come
\* back with a playcount, and the track route runs only then.
C12_CallsInSequenceNoRetry ==
    /\ ui.pc # "idle"
         => /\ IsPrefix(SpinCalls, <<"user.getinfo", "user.getRecentTracks">>)
            /\ Len(SpinCalls) <= 3
            /\ IsPrefix(ui.fetches, <<"max-playcount", "get-nth-song">>)
    /\ ui.pc = "awaitTrack"
         => /\ ui.log = <<"user.getinfo">>
            /\ ui.localMax.known /\ ui.maxPlaycount = ui.localMax
    /\ ui.pc = "awaitPlaycount" => endpoint \in {"none", "playcount"}
    /\ ui.pc = "idle" => endpoint = "none"

C12_Witness ==
    /\ ui.pc = "awaitTrack" /\ pc = "done"
    /\ SpinCalls = <<"user.getinfo", "user.getRecentTracks">>

\* C13: a spin started while a maxPlaycount is held goes straight to the
\* track-by-index call, without fetching the playcount.
C13_HeldPlaycountNotRefetched ==
    (ui.pc # "idle" /\ ui.held.known)
    => \A k \in DOMAIN ui.fetches : ui.fetches[k] # "max-playcount"

\* C14: the n and maxPlaycount a random spin sends to the track route
\* satisfy 1 <= n <= maxPlaycount.
C14_RandomIndexAccepted ==
    (ui.spin = "random" /\ ui.pc = "awaitTrack")
    => ~InvalidIndex(Number(ui.query.n), Number(ui.query.maxPlaycount))

\* C15: for a held maxPlaycount >= 1, the n sent by Enter on the reels is the
\* number on the reels clamped into 1..maxPlaycount, 0 becoming 1 and a
\* number above the bound becoming the bound; maxPlaycount is sent as held,
\* and the track route does not reject the pair.
C15_ReelNumberClamped ==
    (/\ ui.spin = "current" /\ ui.pc = "awaitTrack"
     /\ IsInteger(ui.held.v) /\ IntOf(ui.held.v) >= 1)
    => LET r == currentNumber(ui.targets)
           m == IntOf(ui.held.v)
           n == Number(ui.query.n)
       IN /\ Number(ui.query.maxPlaycount) = Num(m)
          /\ IsInteger(n) /\ IntOf(n) >= 1 /\ IntOf(n) <= m
          /\ r = 0 => IntOf(n) = 1
          /\ r > m => IntOf(n) = m
          /\ (r >= 1 /\ r <= m) => IntOf(n) = r
          /\ pc # "idle" => req.n = Param(ui.query.n)
          /\ pc = "done"
               => resp.error \notin {"Invalid 'n' or 'maxPlaycount' value",
                     "Missing required parameters: user, n, maxPlaycount"}

C15_Witness ==
    /\ ui.spin = "current" /\ ui.pc = "awaitTrack" /\ pc = "done"
    /\ currentNumber(ui.targets) = reelSpan
    /\ ui.held = Known(Num(MaxPlaycountBound))
    /\ ui.query.n = String(MaxPlaycountBound)

\* C16: a spin that has set loading has released it by the time it is over.
C16_LoadingReleased == ui.pc = "idle" => ~ui.loading

\* C17: every request that passes the track-by-index validation leads to a
\* history fetch with an integer page >= 1 and an integer offset in
\* 0..limit-1.
C17_ValidatedGivesIntegerPageAndOffset ==
    (endpoint = "track" /\ pc = "awaitFetch")
    => /\ ~InvalidIndex(ReqN, ReqMax)
       /\ IsInteger(local.page) /\ IntOf(local.page) >= 1
       /\ IsInteger(local.indexInPage)
       /\ IntOf(local.indexInPage) >= 0
       /\ IntOf(local.indexInPage) <= limit - 1

====
